---- MODULE Spec2Model ----
(***************************************************************************)
(* Model of the Douyin summarizer bot's orchestration layer (src/main.py): *)
(* the webhook receive_message with its dedup cache, the per-user task     *)
(* registry _pending, handle_message, _start_new_task, the debounce timer  *)
(* _wait_then_process and _process_task.                                   *)
(*                                                                         *)
(* The program runs on one asyncio event loop.  A coroutine runs without   *)
(* interruption from one network await to the next, so every action below  *)
(* is one such uninterrupted stretch of one coroutine.                     *)
(*                                                                         *)
(* Spec follows the task lifecycle of all users.  The specifications after *)
(* it each follow a single call, whose locals are the record `call`:       *)
(* SpecTask one run of _process_task, SpecSummarize one call of            *)
(* summarize_with_audio, SpecStage3 the output extraction of stage 3       *)
(* (src/app/services/ai_summarizer.py), SpecText and SpecMarkdown one call *)
(* of send_text_message and of send_markdown_message                       *)
(* (src/app/services/wechat_api.py).                                       *)
(***************************************************************************)
EXTENDS Integers, Sequences, FiniteSets, TLC

VARIABLES now, _processed_msgs, _pending, tasks, coroutines,
          nrecv, inbox, last_link, history,
          call

vars == <<now, _processed_msgs, _pending, tasks, coroutines,
          nrecv, inbox, last_link, history, call>>

(* ------------------------------ bounds -------------------------------- *)
\* number of webhook deliveries explored
MaxMsgs == 3
\* the clock advances in steps of TimeStep seconds up to MaxTime
TimeStep == 150
MaxTime == 300
\* number of distinct senders
NumUsers == 2

(* ------------------------- program constants -------------------------- *)
MSG_DEDUP_TTL == 300
WAIT_SECONDS == 120

Users == 1..NumUsers

\* "no object": the None of timer_task, and the absent registry entry
None == 0

(* ------------------------------- text --------------------------------- *)
\* A text is a sequence of characters.  The tokens "U1" and "U2" each stand
\* for a whole share link embedded in the text; "kai", "shi", "hao", "guan",
\* "zhu", "xi" each stand for one CJK character (kai+shi is the word "begin",
\* hao is "good").
UrlTokens == {"U1", "U2"}

IsSpace(c) == c \in {" ", "\n"}

RECURSIVE LStrip(_)
LStrip(s) == IF s # <<>> /\ IsSpace(Head(s)) THEN LStrip(Tail(s)) ELSE s

RECURSIVE RStrip(_)
RStrip(s) ==
    IF s # <<>> /\ IsSpace(s[Len(s)]) THEN RStrip(SubSeq(s, 1, Len(s) - 1)) ELSE s

\* str.strip()
Strip(s) == RStrip(LStrip(s))

LowerChar(c) ==
    CASE c = "O" -> "o"
      [] c = "K" -> "k"
      [] OTHER -> c

\* str.lower()
Lower(s) == [i \in DOMAIN s |-> LowerChar(s[i])]

\* the tuple of trigger words tested in _process_task
TriggerWords == { <<"kai", "shi">>, <<"s", "t", "a", "r", "t">>, <<"o", "k">>, <<"hao">> }

RECURSIVE extract_url_from_text(_)
\* the first share link of the text, or <<>> when it has none
extract_url_from_text(content) ==
    IF content = <<>> THEN <<>>
    ELSE IF Head(content) \in UrlTokens THEN <<Head(content)>>
    ELSE extract_url_from_text(Tail(content))

RECURSIVE RemoveUrl(_, _)
RemoveUrl(content, url) ==
    IF content = <<>> THEN <<>>
    ELSE IF <<Head(content)>> = url THEN Tail(content)
    ELSE <<Head(content)>> \o RemoveUrl(Tail(content), url)

\* the text around the link, trimmed
extract_user_requirement(content, url) == Strip(RemoveUrl(content, url))

(* --------------------------- inbound messages ------------------------- *)
Msg(id, ct, type, content) ==
    [MsgId |-> id, CreateTime |-> ct, MsgType |-> type, Content |-> content]

\* the webhook payloads the model delivers (each may be delivered again)
Inbound ==
    { Msg(<<"1">>, <<"7">>, "text", <<"U1", " ", "xi">>),
      Msg(<<"2">>, <<"7">>, "text", <<"U2">>),
      Msg(<<"3">>, <<"8">>, "text", <<" ", "O", "K">>),
      Msg(<<"4">>, <<"8">>, "text", <<"guan", "zhu", " ">>),
      Msg(<<"5">>, <<"9">>, "text", <<" ">>),
      Msg(<<"6">>, <<"9">>, "image", <<>>) }

\* f"{msg_id}_{create_time}"
dedup_key(m) == m.MsgId \o <<"_">> \o m.CreateTime

\* a dedup test with the age comparison turned around
IsDuplicate_AgeInverted(m) ==
    /\ dedup_key(m) \in DOMAIN _processed_msgs
    /\ now - _processed_msgs[dedup_key(m)] > MSG_DEDUP_TTL

\* `dedup_key in _processed_msgs and now - _processed_msgs[dedup_key] < MSG_DEDUP_TTL`
IsDuplicate(m) ==
    /\ dedup_key(m) \in DOMAIN _processed_msgs
    /\ now - _processed_msgs[dedup_key(m)] < MSG_DEDUP_TTL

(* ------------------------------- state -------------------------------- *)
\* PendingTask(user_id, share_url, share_text); created_at is never read by
\* the program and is left out
PendingTask(user_id, share_url, share_text) ==
    [user_id |-> user_id, share_url |-> share_url, share_text |-> share_text,
     extra_requirement |-> <<>>, timer_task |-> None, processing |-> FALSE]

\* A coroutine scheduled with asyncio.create_task: a handle_message call
\* ("handler") or a _wait_then_process call ("timer").  pc is the await the
\* coroutine is suspended at; task is its local variable `task`; req is the
\* local `req` of _process_task; key is the dedup key of the message a
\* handler was created for and seq that message's number among the messages
\* of its sender; owner is the task whose timer_task field holds a timer.
\* A coroutine that has returned keeps none of its locals.
Handler(user_id, m, seq) ==
    [kind |-> "handler", user_id |-> user_id, content |-> m.Content,
     pc |-> "ready", task |-> None, req |-> <<>>, key |-> dedup_key(m),
     seq |-> seq, deadline |-> 0, owner |-> None]

Timer(user_id, owner) ==
    [kind |-> "timer", user_id |-> user_id, content |-> <<>>,
     pc |-> "sleeping", task |-> None, req |-> <<>>, key |-> <<>>,
     seq |-> 0, deadline |-> now + WAIT_SECONDS, owner |-> owner]

Returned(c, pc) ==
    [kind |-> c.kind, user_id |-> c.user_id, content |-> <<>>,
     pc |-> pc, task |-> None, req |-> <<>>, key |-> <<>>,
     seq |-> 0, deadline |-> 0, owner |-> c.owner]

\* What happened to a task so far: the text and the number of the message
\* that created it, whether a non-link message of its user was handled while
\* it was that user's newest task, what started its pipeline runs, and how
\* it left the registry.
History(content, seq) ==
    [link |-> content, seq |-> seq, followup |-> FALSE, runs |-> <<>>, removals |-> <<>>]

\* no single call of a service function is being followed
NoCall == [fn |-> "none"]

Init ==
    /\ now = 0
    /\ _processed_msgs = <<>>
    /\ _pending = [u \in Users |-> None]
    /\ tasks = <<>>
    /\ coroutines = <<>>
    /\ nrecv = 0
    /\ inbox = [u \in Users |-> 0]
    /\ last_link = [u \in Users |-> <<>>]
    /\ history = <<>>
    /\ call = NoCall

(* ------------------------------ helpers ------------------------------- *)
\* asyncio.Task.done()
done(c) == coroutines[c].pc \in {"done", "cancelled", "interrupted"}

\* `if pending.timer_task and not pending.timer_task.done():
\*      pending.timer_task.cancel()` applied to the coroutine table cs.
\* A sleeping timer never wakes again; cancelling a timer that is inside the
\* pipeline would interrupt that pipeline.
cancel_timer(cs, t) ==
    IF t = None \/ done(t) THEN cs
    ELSE IF cs[t].pc = "sleeping" THEN [cs EXCEPT ![t] = Returned(@, "cancelled")]
    ELSE [cs EXCEPT ![t] = Returned(@, "interrupted")]

\* a requirement merge that compares with the trigger words without lower()
merge_requirement_CaseSensitive(task) ==
    IF task.extra_requirement # <<>>
       /\ Strip(task.extra_requirement) \notin TriggerWords
    THEN task.extra_requirement
    ELSE task.share_text

\* the requirement merge at the top of _process_task's try block
merge_requirement(task) ==
    IF task.extra_requirement # <<>>
       /\ Lower(Strip(task.extra_requirement)) \notin TriggerWords
    THEN task.extra_requirement
    ELSE task.share_text

\* the guard of _wait_then_process after the sleep
timer_guard(u) == _pending[u] # None /\ ~tasks[_pending[u]].processing

\* a case-1 guard that does not look at the processing flag
waiting_IgnoresProcessing(u) == _pending[u] # None

\* the guard of "case 1" of handle_message
waiting(u) == _pending[u] # None /\ ~tasks[_pending[u]].processing

\* the guard of "case 3" of handle_message
busy(u) == _pending[u] # None /\ tasks[_pending[u]].processing

\* one removal of a task from the registry: how, by the run of which task,
\* and whether the removed task was processing
Removal(how, by, processing) == [how |-> how, by |-> by, processing |-> processing]

(* ------------------------------ actions ------------------------------- *)
\* time.time() advances by TimeStep seconds.  A coroutine scheduled with
\* create_task starts on the next turn of the event loop, long before that.
Tick ==
    /\ now + TimeStep <= MaxTime
    /\ \A c \in DOMAIN coroutines : coroutines[c].pc # "ready"
    /\ now' = now + TimeStep
    /\ UNCHANGED <<call, _processed_msgs, _pending, tasks, coroutines,
                   nrecv, inbox, last_link, history>>

\* receive_message: POST /callback delivers message m from user u
Receive(u, m) ==
    /\ nrecv < MaxMsgs
    /\ nrecv' = nrecv + 1
    /\ IF IsDuplicate(m)
       THEN UNCHANGED <<_processed_msgs, coroutines, inbox>>
       ELSE /\ inbox' = [inbox EXCEPT ![u] = @ + 1]
            /\ LET recorded == [k \in DOMAIN _processed_msgs \cup {dedup_key(m)} |->
                                   IF k = dedup_key(m) THEN now ELSE _processed_msgs[k]]
                   fresh == {k \in DOMAIN recorded : ~(now - recorded[k] > MSG_DEDUP_TTL)}
               IN _processed_msgs' = [k \in fresh |-> recorded[k]]
            /\ IF m.MsgType = "text"
               THEN coroutines' = Append(coroutines, Handler(u, m, inbox[u] + 1))
               ELSE UNCHANGED coroutines
    /\ UNCHANGED <<call, now, _pending, tasks, last_link, history>>

\* a _start_new_task that registers the task with _pending.setdefault, which
\* keeps an entry the user already has
start_new_task_KeepsEntry(c, cs, hs, pd, u, content, url) ==
    LET tid == Len(tasks) + 1
    IN /\ tasks' = Append(tasks, PendingTask(u, url, extract_user_requirement(content, url)))
       /\ history' = Append(hs, History(content, cs[c].seq))
       /\ _pending' = IF pd[u] = None THEN [pd EXCEPT ![u] = tid] ELSE pd
       /\ coroutines' = [cs EXCEPT ![c].pc = "ack", ![c].task = tid]

\* _start_new_task up to its await of send_text_message, run by handler c
\* on the tables (cs, hs, pd) left by the caller
start_new_task(c, cs, hs, pd, u, content, url) ==
    LET tid == Len(tasks) + 1
    IN /\ tasks' = Append(tasks, PendingTask(u, url, extract_user_requirement(content, url)))
       /\ history' = Append(hs, History(content, cs[c].seq))
       /\ _pending' = [pd EXCEPT ![u] = tid]
       /\ coroutines' = [cs EXCEPT ![c].pc = "ack", ![c].task = tid]

\* _process_task up to its first await, run by coroutine c on the tables
\* (cs, ts, hs) left by the caller
process_task(c, cs, ts, hs, u) ==
    IF _pending[u] = None
    THEN /\ coroutines' = [cs EXCEPT ![c] = Returned(@, "done")]
         /\ tasks' = ts
         /\ history' = hs
    ELSE LET tid == _pending[u]
         IN /\ tasks' = [ts EXCEPT ![tid].processing = TRUE]
            /\ coroutines' = [cs EXCEPT ![c].pc = "work", ![c].task = tid,
                                        ![c].req = merge_requirement(ts[tid])]
            /\ history' = [hs EXCEPT ![tid].runs = Append(@, cs[c].kind)]

\* the newest task created for user u, or None
newest(u) ==
    LET mine == {t \in DOMAIN tasks : tasks[t].user_id = u}
    IN IF mine = {} THEN None ELSE CHOOSE t \in mine : \A t2 \in mine : t2 <= t

\* the history after a non-link message of user u was handled
noted(u) ==
    IF newest(u) = None THEN history
    ELSE [history EXCEPT ![newest(u)].followup = TRUE]

\* the event loop starts the oldest scheduled handle_message call, which
\* runs to its first await
HandleMessage(c) ==
    /\ c \in DOMAIN coroutines
    /\ coroutines[c].kind = "handler" /\ coroutines[c].pc = "ready"
    /\ \A d \in 1..(c - 1) : coroutines[d].pc # "ready"
    /\ LET u == coroutines[c].user_id
           content == coroutines[c].content
           url == extract_url_from_text(content)
           old == _pending[u]
       IN /\ last_link' = IF url # <<>> THEN [last_link EXCEPT ![u] = url] ELSE last_link
          /\ IF waiting(u)
             THEN IF url # <<>>
                  THEN \* cancel the timer, del _pending[user_id], _start_new_task
                       start_new_task(c, cancel_timer(coroutines, tasks[old].timer_task),
                                      [history EXCEPT ![old].removals =
                                          Append(@, Removal("link", None, FALSE))],
                                      [_pending EXCEPT ![u] = None],
                                      u, content, url)
                  ELSE \* store the requirement, cancel the timer, _process_task
                       /\ process_task(c, cancel_timer(coroutines, tasks[old].timer_task),
                                       [tasks EXCEPT ![old].extra_requirement = Strip(content)],
                                       noted(u), u)
                       /\ UNCHANGED _pending
             ELSE IF url # <<>>
                  THEN start_new_task(c, coroutines,
                                      IF old = None THEN history
                                      ELSE [history EXCEPT ![old].removals =
                                               Append(@, Removal("link", None, tasks[old].processing))],
                                      _pending, u, content, url)
                  ELSE /\ coroutines' = [coroutines EXCEPT ![c].pc = IF busy(u) THEN "busy" ELSE "help"]
                       /\ history' = noted(u)
                       /\ UNCHANGED <<_pending, tasks>>
    /\ UNCHANGED <<call, now, _processed_msgs, nrecv, inbox>>

\* the acknowledgment of _start_new_task was sent: the timer is created
AckSent(c) ==
    /\ c \in DOMAIN coroutines
    /\ coroutines[c].pc = "ack"
    /\ LET tid == coroutines[c].task
           t == Len(coroutines) + 1
       IN /\ coroutines' = Append([coroutines EXCEPT ![c] = Returned(@, "done")],
                                  Timer(coroutines[c].user_id, tid))
          /\ tasks' = [tasks EXCEPT ![tid].timer_task = t]
    /\ UNCHANGED <<call, now, _processed_msgs, _pending, nrecv, inbox, last_link, history>>

\* sending the acknowledgment raised: handle_message's except clause
\* replies "system busy" and no timer is created
AckFailed(c) ==
    /\ c \in DOMAIN coroutines
    /\ coroutines[c].pc = "ack"
    /\ coroutines' = [coroutines EXCEPT ![c].pc = "error", ![c].task = None]
    /\ UNCHANGED <<call, now, _processed_msgs, _pending, tasks, nrecv, inbox, last_link, history>>

\* a "busy", "help" or "system busy" reply was sent (or sending it raised,
\* which changes nothing): handle_message returns
ReplySent(c) ==
    /\ c \in DOMAIN coroutines
    /\ coroutines[c].pc \in {"busy", "help", "error"}
    /\ coroutines' = [coroutines EXCEPT ![c] = Returned(@, "done")]
    /\ UNCHANGED <<call, now, _processed_msgs, _pending, tasks, nrecv, inbox, last_link, history>>

\* _wait_then_process wakes from asyncio.sleep(WAIT_SECONDS)
TimerFires(c) ==
    /\ c \in DOMAIN coroutines
    /\ coroutines[c].pc = "sleeping"
    /\ now >= coroutines[c].deadline
    /\ IF timer_guard(coroutines[c].user_id)
       THEN process_task(c, [coroutines EXCEPT ![c].deadline = 0], tasks, history,
                         coroutines[c].user_id)
       ELSE /\ coroutines' = [coroutines EXCEPT ![c] = Returned(@, "done")]
            /\ UNCHANGED <<tasks, history>>
    /\ UNCHANGED <<call, now, _processed_msgs, _pending, nrecv, inbox, last_link>>

\* the finally block of _process_task: _pending.pop(user_id, None)
finally(c) ==
    LET u == coroutines[c].user_id
        tid == _pending[u]
    IN /\ coroutines' = [coroutines EXCEPT ![c] = Returned(@, "done")]
       /\ _pending' = [_pending EXCEPT ![u] = None]
       /\ history' = IF tid = None THEN history
                     ELSE [history EXCEPT ![tid].removals =
                              Append(@, Removal("cleanup", coroutines[c].task, tasks[tid].processing))]

\* every step of the try block succeeded and the result was delivered
PipelineSucceeds(c) ==
    /\ c \in DOMAIN coroutines
    /\ coroutines[c].pc = "work"
    /\ finally(c)
    /\ UNCHANGED <<call, now, _processed_msgs, tasks, nrecv, inbox, last_link>>

\* a step of the try block raised: the except clause sends the failure text
PipelineFails(c) ==
    /\ c \in DOMAIN coroutines
    /\ coroutines[c].pc = "work"
    /\ coroutines' = [coroutines EXCEPT ![c].pc = "failmsg"]
    /\ UNCHANGED <<call, now, _processed_msgs, _pending, tasks, nrecv, inbox, last_link, history>>

\* the failure text was sent (or sending it raised, which is swallowed)
FailureReported(c) ==
    /\ c \in DOMAIN coroutines
    /\ coroutines[c].pc = "failmsg"
    /\ finally(c)
    /\ UNCHANGED <<call, now, _processed_msgs, tasks, nrecv, inbox, last_link>>

Next ==
    \/ Tick
    \/ \E u \in Users, m \in Inbound : Receive(u, m)
    \/ \E c \in DOMAIN coroutines : HandleMessage(c)
    \/ \E c \in DOMAIN coroutines : AckSent(c)
    \/ \E c \in DOMAIN coroutines : AckFailed(c)
    \/ \E c \in DOMAIN coroutines : ReplySent(c)
    \/ \E c \in DOMAIN coroutines : TimerFires(c)
    \/ \E c \in DOMAIN coroutines : PipelineSucceeds(c)
    \/ \E c \in DOMAIN coroutines : PipelineFails(c)
    \/ \E c \in DOMAIN coroutines : FailureReported(c)

Spec == Init /\ [][Next]_vars

(* --------------------------- type invariant --------------------------- *)
TypeOK ==
    /\ now \in 0..MaxTime
    /\ nrecv \in 0..MaxMsgs
    /\ \A u \in Users : _pending[u] \in 0..Len(tasks)
    /\ Len(history) = Len(tasks)
    /\ \A c \in DOMAIN coroutines :
          coroutines[c].pc \in {"ready", "ack", "busy", "help", "error", "work",
                                "failmsg", "sleeping", "cancelled", "interrupted", "done"}

(* ------------------------------ lemmas -------------------------------- *)
\* cancel() is only ever applied to a timer that is still sleeping: no
\* pipeline run is interrupted by a cancellation
NoRunInterrupted == \A c \in DOMAIN coroutines : coroutines[c].pc # "interrupted"

\* the registry entry of a user is a task of that user
RegistryKeyed ==
    \A u \in Users : _pending[u] # None => tasks[_pending[u]].user_id = u

(* ------------------------------ claims -------------------------------- *)
\* the coroutines that are inside a pipeline run of user u
Running(u) ==
    {c \in DOMAIN coroutines :
        coroutines[c].user_id = u /\ coroutines[c].pc \in {"work", "failmsg"}}

\* C1: for every user, at most one pipeline run (_process_task between
\* processing = True and its finally block) is in progress at any instant.
C1_AtMostOneRunPerUser == \A u \in Users : Cardinality(Running(u)) <= 1

\* C2: a message (link or not) handled for a user whose task is PROCESSING
\* produces only the "busy" reply: no task is created, no timer is scheduled,
\* the registry entry and the running task are left unchanged.
C2_BusyWhileProcessing ==
    [][\A c \in DOMAIN coroutines :
          ( /\ coroutines[c].pc = "ready"
            /\ coroutines'[c].pc # "ready"
            /\ _pending[coroutines[c].user_id] # None
            /\ tasks[_pending[coroutines[c].user_id]].processing )
          => ( /\ coroutines'[c].pc = "busy"
               /\ _pending' = _pending
               /\ tasks' = tasks
               /\ Len(coroutines') = Len(coroutines) )]_vars

\* the debounce timer of task t has fired (it woke from its sleep)
TimerFired(t) ==
    \E c \in DOMAIN coroutines :
        /\ coroutines[c].kind = "timer" /\ coroutines[c].owner = t
        /\ coroutines[c].pc \notin {"sleeping", "cancelled"}

\* C3: when the timer of a task fires and a follow-up message for the task is
\* handled, in either order, exactly one pipeline run is started for that
\* task (and never more than one in any case).
C3_ExactlyOneRunPerTask ==
    \A t \in DOMAIN tasks :
        /\ Len(history[t].runs) <= 1
        /\ (TimerFired(t) /\ history[t].followup) => Len(history[t].runs) = 1

\* no task is ever run twice, whatever triggers its runs
AtMostOneRunPerTask == \A t \in DOMAIN tasks : Len(history[t].runs) <= 1

\* C4: a message whose dedup key was recorded less than 300 seconds earlier
\* is dropped by receive_message: no handle_message call is created for it
\* (hence no reply, task or run), and the receipt time stored for the key
\* stays as it was.
C4_DuplicateDropped ==
    [][\A k \in DOMAIN _processed_msgs :
          (now - _processed_msgs[k] < 300)
          => /\ k \in DOMAIN _processed_msgs'
             /\ _processed_msgs'[k] = _processed_msgs[k]
             /\ \A c \in DOMAIN coroutines' :
                   (c \notin DOMAIN coroutines /\ coroutines'[c].kind = "handler")
                   => coroutines'[c].key # k]_vars

\* a delivery was dropped as a duplicate: at time 0 nothing has expired, so
\* every delivery that was not dropped has its own cache entry
C4_Witness ==
    /\ now = 0
    /\ _processed_msgs # <<>>
    /\ nrecv > Cardinality(DOMAIN _processed_msgs)

\* C5: the registry holds at most one task per user, and the share_url of the
\* task it holds is the URL of the most recent link-bearing message handled
\* for that user.
C5_NewestLinkWins ==
    \A u \in Users :
        /\ Cardinality({t \in DOMAIN tasks : _pending[tasks[t].user_id] = t
                                             /\ tasks[t].user_id = u}) <= 1
        /\ _pending[u] # None => /\ tasks[_pending[u]].user_id = u
                                 /\ tasks[_pending[u]].share_url = last_link[u]

\* a second link of a user replaced that user's first task
C5_Witness ==
    \E u \in Users, t \in DOMAIN tasks :
        /\ _pending[u] # None /\ _pending[u] # t
        /\ tasks[t].user_id = u
        /\ tasks[t].share_url # tasks[_pending[u]].share_url
        /\ tasks[_pending[u]].share_url = last_link[u]

\* task t was replaced by a newer link while it was PENDING
Replaced(t) ==
    \E i \in DOMAIN history[t].removals :
        history[t].removals[i].how = "link" /\ ~history[t].removals[i].processing

\* C6: a timer scheduled for a task that a newer link replaced never starts a
\* pipeline run: a timer-started run is started by the task's own timer.
C6_ReplacedTimerNeverRuns ==
    \A c \in DOMAIN coroutines :
        (coroutines[c].kind = "timer" /\ coroutines[c].pc \in {"work", "failmsg"})
        => /\ ~Replaced(coroutines[c].owner)
           /\ coroutines[c].task = coroutines[c].owner

\* C7: once a follow-up message has moved a task to PROCESSING, no timer of
\* that task is scheduled, so the timer of that task never fires afterwards.
C7_NoTimerAfterExplicitTrigger ==
    \A c \in DOMAIN coroutines :
        (coroutines[c].kind = "timer" /\ coroutines[c].owner # None
         /\ "handler" \in {history[coroutines[c].owner].runs[i] :
                              i \in DOMAIN history[coroutines[c].owner].runs})
        => coroutines[c].pc = "cancelled"

\* the inline requirement of the link message that created task t
InlineRequirement(t) ==
    extract_user_requirement(history[t].link, extract_url_from_text(history[t].link))

\* C8: a run uses the (trimmed) follow-up text when a follow-up was supplied
\* and its trimmed, lower-cased form is neither empty nor a trigger word;
\* otherwise (timer, trigger word, empty follow-up) the inline requirement of
\* the link message.
C8_RequirementUsed ==
    \A c \in DOMAIN coroutines :
        coroutines[c].pc \in {"work", "failmsg"} =>
            LET t == coroutines[c].task
                followup == Strip(coroutines[c].content)
            IN coroutines[c].req =
                  IF /\ coroutines[c].kind = "handler"
                     /\ followup # <<>>
                     /\ Lower(followup) \notin
                           { <<"kai", "shi">>, <<"s", "t", "a", "r", "t">>, <<"o", "k">>, <<"hao">> }
                  THEN followup
                  ELSE InlineRequirement(t)

\* a run triggered by a follow-up that is a trigger word only after trimming
\* and lower-casing uses the non-empty inline requirement of the link
C8_Witness ==
    \E c \in DOMAIN coroutines :
        /\ coroutines[c].pc = "work" /\ coroutines[c].kind = "handler"
        /\ coroutines[c].content # Lower(Strip(coroutines[c].content))
        /\ Lower(Strip(coroutines[c].content)) \in TriggerWords
        /\ coroutines[c].req # <<>>
        /\ coroutines[c].req = InlineRequirement(coroutines[c].task)

\* nothing is scheduled or suspended: every message was handled, every
\* reply sent, every timer has fired or was cancelled, every run has ended
Quiescent ==
    \A c \in DOMAIN coroutines : coroutines[c].pc \in {"done", "cancelled"}

\* C9: if the user sends nothing after the link message that created a task,
\* a pipeline run for that task eventually starts: once the task's timer was
\* scheduled and nothing is left to happen, the run has started.
C9_AutoStart ==
    Quiescent =>
        \A t \in DOMAIN tasks :
            (tasks[t].timer_task # None /\ inbox[tasks[t].user_id] = history[t].seq)
            => Len(history[t].runs) >= 1

\* C10: a task leaves the registry at most once, and only through a newer
\* link of its user while it is PENDING or through the cleanup of the run
\* that processed that very task.
C10_RemovedOnceByOwner ==
    \A t \in DOMAIN tasks :
        /\ Len(history[t].removals) <= 1
        /\ \A i \in DOMAIN history[t].removals :
              LET r == history[t].removals[i]
              IN \/ r.how = "link" /\ ~r.processing
                 \/ r.how = "cleanup" /\ r.by = t

(* ====================================================================== *)
(* One run of _process_task (src/main.py), await by await                 *)
(* ====================================================================== *)
\* the variables of the orchestration layer that one call leaves alone
lifecycle == <<now, _processed_msgs, coroutines, nrecv, inbox, last_link, history>>

\* lengths of the error texts str(e) the failing steps raise
ShortError == 3
LongError == 101

\* the slice bound of str(e)[:100]
ERROR_TEXT_LIMIT == 100

Min(a, b) == IF a <= b THEN a ELSE b

\* an error text of n characters: character i is written i
ErrorText(n) == [i \in 1..n |-> i]

ErrorTexts == {ErrorText(n) : n \in {0, ShortError, ERROR_TEXT_LIMIT, LongError}}

\* what an awaited or called step does: it returns, or it raises e
Ok == [ok |-> TRUE, e |-> <<>>]
Raises(e) == [ok |-> FALSE, e |-> e]
Outcomes == {Ok} \cup {Raises(e) : e \in ErrorTexts}

\* a str(e) slice that keeps the whole text
error_text_Whole(e) == e

\* str(e)[:100]
error_text(e) == SubSeq(e, 1, Min(Len(e), ERROR_TEXT_LIMIT))

\* f"处理失败: {str(e)[:100]}"
failure_message(e) == <<"chu li shi bai: ">> \o error_text(e)

\* The locals of a _process_task(user_id) call.  pc is the await the call is
\* suspended at; raised_at is the step whose exception reached the outer
\* except clause and e that exception's text; reported is the text handed to
\* send_text_message by the except clause; store_failed records that the
\* knowledge-base block raised; delivered is how the summary reached the
\* user; escaped records an exception leaving the function.
ProcessTask(user_id) ==
    [fn |-> "_process_task", user_id |-> user_id, pc |-> "start",
     video_id |-> None, pdf_success |-> FALSE, store_failed |-> FALSE,
     raised_at |-> "none", e |-> <<>>, reported |-> <<>>,
     delivered |-> "none", cleaned |-> FALSE, escaped |-> FALSE]

\* the user has one waiting task and its timer has just fired
InitTask ==
    /\ now = 0
    /\ _processed_msgs = <<>>
    /\ coroutines = <<>>
    /\ nrecv = 0
    /\ inbox = [u \in Users |-> 0]
    /\ last_link = [u \in Users |-> <<>>]
    /\ \E u \in Users :
          /\ _pending = [v \in Users |-> IF v = u THEN 1 ELSE None]
          /\ tasks = <<PendingTask(u, "U1", <<"xi">>)>>
          /\ history = <<History(<<"U1", " ", "xi">>, 1)>>
          /\ call = ProcessTask(u)

\* an exception raised inside the try block at step `at` reaches the
\* `except Exception` clause, which awaits the send of the failure text
except(c, e, at) ==
    [c EXCEPT !.pc = "failmsg", !.e = e, !.raised_at = at,
              !.reported = failure_message(e)]

\* the finally clause: temporary files are cleaned when video_id is set, and
\* the user's registry entry is popped
TaskFinally(c) ==
    /\ call' = [c EXCEPT !.pc = "returned", !.cleaned = (c.video_id # None)]
    /\ _pending' = [_pending EXCEPT ![c.user_id] = None]

\* a knowledge-base block without its own try/except
knowledge_save_Unguarded(c, r) ==
    IF r.ok THEN c ELSE except(c, r.e, "store")

\* the knowledge-base block: tag extraction and the store write, whose
\* exception is logged and dropped
knowledge_save(c, r) == c

\* _process_task up to the await of resolve_and_download
TaskStarts ==
    /\ call.pc = "start"
    /\ _pending[call.user_id] # None
    /\ tasks' = [tasks EXCEPT ![_pending[call.user_id]].processing = TRUE]
    /\ call' = [call EXCEPT !.pc = "resolve"]
    /\ UNCHANGED <<_pending, lifecycle>>

\* resolve_and_download returns or raises; then extract_audio runs and the
\* progress text is sent
Resolved ==
    /\ call.pc = "resolve"
    /\ \E r \in Outcomes, audio \in Outcomes :
          call' = IF ~r.ok THEN except(call, r.e, "resolve")
                  ELSE IF ~audio.ok
                       THEN except([call EXCEPT !.video_id = 1], audio.e, "extract_audio")
                       ELSE [call EXCEPT !.video_id = 1, !.pc = "progress"]
    /\ UNCHANGED <<_pending, tasks, lifecycle>>

\* the send of the progress text returns or raises; then summarize_with_audio
\* is awaited
ProgressSent ==
    /\ call.pc = "progress"
    /\ \E r \in Outcomes :
          call' = IF r.ok THEN [call EXCEPT !.pc = "summarize"]
                  ELSE except(call, r.e, "progress")
    /\ UNCHANGED <<_pending, tasks, lifecycle>>

\* summarize_with_audio returns or raises; with a summary the knowledge-base
\* block runs, then generate_pdf, which returns True or False or raises
Summarized ==
    /\ call.pc = "summarize"
    /\ \E r \in Outcomes, store \in Outcomes, pdf \in {"True", "False", "raises"} :
          call' = IF ~r.ok THEN except(call, r.e, "summarize")
                  ELSE LET c == knowledge_save([call EXCEPT !.store_failed = ~store.ok], store)
                       IN IF c.pc = "failmsg" THEN c
                          ELSE IF pdf = "True" THEN [c EXCEPT !.pc = "upload"]
                          ELSE [c EXCEPT !.pc = "fallback_text"]
    /\ UNCHANGED <<_pending, tasks, lifecycle>>

\* upload_temp_media returns or raises; an exception is logged and dropped
Uploaded ==
    /\ call.pc = "upload"
    /\ \E r \in Outcomes :
          call' = IF r.ok THEN [call EXCEPT !.pc = "send_file"]
                  ELSE [call EXCEPT !.pc = "fallback_text"]
    /\ UNCHANGED <<_pending, tasks, lifecycle>>

\* _send_file_message returns, which ends the try block, or raises, which
\* is logged and dropped
FileSent ==
    /\ call.pc = "send_file"
    /\ \E r \in Outcomes :
          IF r.ok
          THEN TaskFinally([call EXCEPT !.pdf_success = TRUE, !.delivered = "file"])
          ELSE /\ call' = [call EXCEPT !.pc = "fallback_text"]
               /\ UNCHANGED _pending
    /\ UNCHANGED <<tasks, lifecycle>>

\* the send of the "PDF failed" text returns or raises
FallbackTextSent ==
    /\ call.pc = "fallback_text"
    /\ \E r \in Outcomes :
          call' = IF r.ok THEN [call EXCEPT !.pc = "markdown"]
                  ELSE except(call, r.e, "fallback_text")
    /\ UNCHANGED <<_pending, tasks, lifecycle>>

\* send_markdown_message returns, which ends the try block, or raises
MarkdownSent ==
    /\ call.pc = "markdown"
    /\ \E r \in Outcomes :
          IF r.ok
          THEN TaskFinally([call EXCEPT !.delivered = "markdown"])
          ELSE /\ call' = except(call, r.e, "markdown")
               /\ UNCHANGED _pending
    /\ UNCHANGED <<tasks, lifecycle>>

\* the try/except around the send of the failure text: the bare except
\* drops whatever the send raises
report_failure(c, r) == c

\* the send of the failure text returns or raises; then the finally clause
\* runs
TaskFailureReported ==
    /\ call.pc = "failmsg"
    /\ \E r \in Outcomes : TaskFinally(report_failure(call, r))
    /\ UNCHANGED <<tasks, lifecycle>>

NextTask ==
    \/ TaskStarts
    \/ Resolved
    \/ ProgressSent
    \/ Summarized
    \/ Uploaded
    \/ FileSent
    \/ FallbackTextSent
    \/ MarkdownSent
    \/ TaskFailureReported

SpecTask == InitTask /\ [][NextTask]_vars

\* C11: once _process_task has set processing, the run ends with the user's
\* registry entry removed whether every step succeeded or one failed; when a
\* step failed no exception leaves _process_task, and the failure text handed
\* to send_text_message carries a prefix of the error text of at most 100
\* characters.
C11_FailureContained ==
    /\ ~call.escaped
    /\ call.pc = "returned" => _pending[call.user_id] = None
    /\ call.pc = "returned" /\ call.raised_at # "none" =>
          \E n \in 0..ERROR_TEXT_LIMIT :
             /\ n <= Len(call.e)
             /\ call.reported = <<"chu li shi bai: ">> \o SubSeq(call.e, 1, n)

C11_Witness ==
    /\ call.fn = "_process_task"
    /\ call.pc = "returned"
    /\ call.raised_at = "summarize"
    /\ Len(call.e) = LongError
    /\ tasks[1].processing

\* C13: a failure of the knowledge-base block does not fail the task: the
\* run goes on to delivery, the block's exception never reaches the outer
\* except clause, and when nothing else fails the summary is delivered and
\* no failure text is sent.
C13_StoreFailureTolerated ==
    call.store_failed =>
       /\ call.raised_at \in {"none", "fallback_text", "markdown"}
       /\ call.pc \in {"upload", "send_file", "fallback_text", "markdown",
                       "failmsg", "returned"}
       /\ call.pc = "returned" /\ call.raised_at = "none" =>
             /\ call.delivered \in {"file", "markdown"}
             /\ call.reported = <<>>

C13_Witness ==
    /\ call.fn = "_process_task"
    /\ call.store_failed
    /\ call.pc = "returned"
    /\ call.delivered = "file"

(* ====================================================================== *)
(* One call of summarize_with_audio (src/app/services/ai_summarizer.py)   *)
(* ====================================================================== *)
\* the longest audio of the model, in segment windows
MaxWindows == 2

\* the size above which stage 1 takes the segmenting path: 24 * 1024 * 1024
LARGE_AUDIO_BYTES == 24 * 1024 * 1024

\* the length of one segment window and the step of `start`, in seconds
SEGMENT_SECONDS == 600

\* os.path.getsize(audio_path)
AudioSizes == {LARGE_AUDIO_BYTES - 1, LARGE_AUDIO_BYTES, LARGE_AUDIO_BYTES + 1}

\* The float ffprobe reports: `whole` seconds, plus a fraction of a second
\* when frac holds.  Durations of zero are left out.
Duration(whole, frac) == [whole |-> whole, frac |-> frac]
Durations ==
    {Duration(1, FALSE)} \cup
    {Duration(k * SEGMENT_SECONDS - 1, f) : k \in 1..MaxWindows, f \in BOOLEAN} \cup
    {Duration(k * SEGMENT_SECONDS, f) : k \in 1..MaxWindows, f \in BOOLEAN}

\* start < duration, for an integer start
before(start, duration) ==
    start < duration.whole \/ (start = duration.whole /\ duration.frac)

\* a size test that also sends audio of exactly the threshold to segmenting
is_large_Inclusive(size) == size >= LARGE_AUDIO_BYTES

\* os.path.getsize(audio_path) > 24 * 1024 * 1024
is_large(size) == size > LARGE_AUDIO_BYTES

\* a segmenting loop that runs while start <= duration
RECURSIVE segment_starts_Inclusive(_, _)
segment_starts_Inclusive(start, duration) ==
    IF before(start, duration) \/ (start = duration.whole /\ ~duration.frac)
    THEN <<start>> \o segment_starts_Inclusive(start + SEGMENT_SECONDS, duration)
    ELSE <<>>

\* the values `start` takes in `while start < duration: ...; start += 600`
RECURSIVE segment_starts(_, _)
segment_starts(start, duration) ==
    IF before(start, duration)
    THEN <<start>> \o segment_starts(start + SEGMENT_SECONDS, duration)
    ELSE <<>>

\* "\n".join(parts)
RECURSIVE join(_)
join(parts) ==
    IF parts = <<>> THEN <<>>
    ELSE IF Len(parts) = 1 THEN parts[1]
    ELSE parts[1] \o <<"\n">> \o join(Tail(parts))

\* what the backends answer: the speech-to-text transcript of an audio file,
\* the transcript the multimodal model writes, the draft the multimodal
\* model writes from audio, the draft it writes from a transcript, the
\* review of a draft and the final document
whisper_text(audio) == <<"w", audio>>
chat_transcript(audio) == <<"g", audio>>
primary_draft == <<"draft", "audio">>
draft_of(transcript) == <<"draft">> \o transcript
review_of(draft) == <<"review">> \o draft
final_of(draft, review) == <<"final">> \o review

\* The locals of one summarize_with_audio call, with those of the stage-1
\* functions it is inside.  pc is the request being awaited; log lists the
\* requests issued, each with its argument and how it ended, and the
\* removals of segment files; cuts are the windows ffmpeg was run for,
\* produced the windows whose segment file existed after ffmpeg ran,
\* segments the segment files still to transcribe, files the segment files
\* on disk, parts the transcripts collected.
SummarizeWithAudio(size, duration) ==
    [fn |-> "summarize_with_audio", size |-> size, duration |-> duration,
     pc |-> "start", log |-> <<>>, large |-> FALSE,
     cuts |-> <<>>, produced |-> {}, segments |-> <<>>, files |-> {},
     parts |-> <<>>,
     draft |-> <<>>, review |-> <<>>, result |-> <<>>]

InitSummarize ==
    /\ now = 0
    /\ _processed_msgs = <<>>
    /\ _pending = [u \in Users |-> None]
    /\ tasks = <<>>
    /\ coroutines = <<>>
    /\ nrecv = 0
    /\ inbox = [u \in Users |-> 0]
    /\ last_link = [u \in Users |-> <<>>]
    /\ history = <<>>
    /\ \E size \in AudioSizes, duration \in Durations :
          call = SummarizeWithAudio(size, duration)

\* a request is sent and awaited
issue(c, name, arg) ==
    [c EXCEPT !.pc = name,
              !.log = Append(@, [call |-> name, arg |-> arg, ok |-> "pending"])]

\* the awaited request returned (ok) or raised
settle(c, ok) ==
    [c EXCEPT !.log[Len(c.log)].ok = IF ok THEN "ok" ELSE "failed"]

\* an exception leaves summarize_with_audio, which has no try block
propagate(c) == [c EXCEPT !.pc = "raised"]

\* the part of _stage1_large_audio after a segment's try/except/finally, and
\* after the segmenting loop: the next segment is transcribed, or the
\* joined transcript is summarised
next_segment(c) ==
    IF c.segments = <<>>
    THEN issue(c, "summarise", join(c.parts))
    ELSE issue(c, "whisper", Head(c.segments))

\* the finally clause of the segment loop: the segment file is removed
remove_segment(c) ==
    LET seg == Head(c.segments)
    IN [c EXCEPT !.files = @ \ {seg}, !.segments = Tail(@),
                 !.log = Append(@, [call |-> "remove", arg |-> seg, ok |-> "ok"])]

\* stage 1 returned its draft: stage2_critical_review(draft) is awaited
stage1_returns(c, draft) == issue([c EXCEPT !.draft = draft], "stage2", draft)

\* a summarize_with_audio that answers a stage-3 failure with the draft
stage3_failed_ReturnsDraft(c) == [c EXCEPT !.pc = "returned", !.result = c.draft]

\* stage3_enrich_and_finalize raised
stage3_failed(c) == propagate(c)

\* summarize_with_audio up to the first request of stage 1: the primary
\* multimodal call, or, for large audio, ffprobe, the segmenting loop (which
\* keeps the windows whose segment file exists after ffmpeg ran) and the
\* first segment's transcription
Stage1Starts ==
    /\ call.pc = "start"
    /\ IF is_large(call.size)
       THEN LET starts == segment_starts(0, call.duration)
            IN \E produced \in SUBSET {starts[i] : i \in DOMAIN starts} :
                  call' = next_segment(
                             [call EXCEPT !.large = TRUE, !.cuts = starts,
                                          !.produced = produced,
                                          !.files = produced,
                                          !.segments = SelectSeq(starts, LAMBDA s : s \in produced)])
       ELSE call' = issue(call, "primary", "audio")
    /\ UNCHANGED <<_pending, tasks, lifecycle>>

\* the primary multimodal call returns the draft, or raises and
\* _stage1_fallback starts with _transcribe_audio
PrimaryReturns ==
    /\ call.pc = "primary"
    /\ \E ok \in BOOLEAN :
          call' = IF ok THEN stage1_returns(settle(call, TRUE), primary_draft)
                  ELSE issue(settle(call, FALSE), "whisper", "audio")
    /\ UNCHANGED <<_pending, tasks, lifecycle>>

\* the speech-to-text request of _transcribe_audio returns the transcript, or
\* raises and the low-temperature multimodal transcription is requested
WhisperReturns ==
    /\ call.pc = "whisper"
    /\ \E ok \in BOOLEAN :
          LET c == settle(call, ok)
              audio == call.log[Len(call.log)].arg
          IN call' = IF ~ok THEN issue(c, "transcribe_chat", audio)
                     ELSE IF c.large
                     THEN next_segment(remove_segment(
                             [c EXCEPT !.parts = Append(@, whisper_text(audio))]))
                     ELSE issue(c, "summarise", whisper_text(audio))
    /\ UNCHANGED <<_pending, tasks, lifecycle>>

\* the multimodal transcription of _transcribe_audio returns the transcript
\* or raises: the segment loop drops the exception, _stage1_fallback does not
TranscribeChatReturns ==
    /\ call.pc = "transcribe_chat"
    /\ \E ok \in BOOLEAN :
          LET c == settle(call, ok)
              audio == call.log[Len(call.log)].arg
          IN call' = IF c.large
                     THEN next_segment(remove_segment(
                             IF ok THEN [c EXCEPT !.parts = Append(@, chat_transcript(audio))]
                             ELSE c))
                     ELSE IF ok THEN issue(c, "summarise", chat_transcript(audio))
                     ELSE propagate(c)
    /\ UNCHANGED <<_pending, tasks, lifecycle>>

\* the chat call that summarises a transcript returns the draft or raises
SummariseReturns ==
    /\ call.pc = "summarise"
    /\ \E ok \in BOOLEAN :
          LET c == settle(call, ok)
          IN call' = IF ok THEN stage1_returns(c, draft_of(call.log[Len(call.log)].arg))
                     ELSE propagate(c)
    /\ UNCHANGED <<_pending, tasks, lifecycle>>

\* stage2_critical_review returns the review or raises
Stage2Returns ==
    /\ call.pc = "stage2"
    /\ \E ok \in BOOLEAN :
          LET c == settle(call, ok)
          IN call' = IF ok
                     THEN issue([c EXCEPT !.review = review_of(call.log[Len(call.log)].arg)],
                                "stage3", <<c.draft, review_of(call.log[Len(call.log)].arg)>>)
                     ELSE propagate(c)
    /\ UNCHANGED <<_pending, tasks, lifecycle>>

\* stage3_enrich_and_finalize returns the final document, which
\* summarize_with_audio returns, or raises
Stage3Returns ==
    /\ call.pc = "stage3"
    /\ \E ok \in BOOLEAN :
          LET c == settle(call, ok)
              args == call.log[Len(call.log)].arg
          IN call' = IF ok
                     THEN [c EXCEPT !.pc = "returned", !.result = final_of(args[1], args[2])]
                     ELSE stage3_failed(c)
    /\ UNCHANGED <<_pending, tasks, lifecycle>>

NextSummarize ==
    \/ Stage1Starts
    \/ PrimaryReturns
    \/ WhisperReturns
    \/ TranscribeChatReturns
    \/ SummariseReturns
    \/ Stage2Returns
    \/ Stage3Returns

SpecSummarize == InitSummarize /\ [][NextSummarize]_vars

\* the positions of the log that hold a request named name
at(name) == {i \in DOMAIN call.log : call.log[i].call = name}

\* the requests and file removals made inside stage 1
Stage1Log ==
    SelectSeq(call.log, LAMBDA r : r.call \in {"primary", "whisper", "transcribe_chat",
                                               "summarise", "remove"})

\* C12: summarize_with_audio invokes stage 1, stage 2 and stage 3 in that
\* order, each at most once; stage 2 is given the stage-1 draft and stage 3
\* the draft and the review; a document is returned only after all three
\* succeeded, and it is the stage-3 document; when a stage fails no later
\* stage is invoked, the failure propagates and nothing is returned.
C12_StagesInOrder ==
    call.fn = "summarize_with_audio" =>
    /\ Cardinality(at("primary")) <= 1
    /\ Cardinality(at("summarise")) <= 1
    /\ Cardinality(at("stage2")) <= 1
    /\ Cardinality(at("stage3")) <= 1
    /\ \A j \in at("stage2") :
          /\ Len(Stage1Log) = j - 1
          /\ call.log[j].arg = call.draft
          /\ call.log[j - 1].ok = "ok"
          /\ \/ call.log[j - 1].call = "primary" /\ call.draft = primary_draft
             \/ call.log[j - 1].call = "summarise"
                /\ call.draft = draft_of(call.log[j - 1].arg)
    /\ \A j \in at("stage3") :
          /\ j = Len(call.log)
          /\ call.log[j - 1].call = "stage2"
          /\ call.log[j - 1].ok = "ok"
          /\ call.review = review_of(call.draft)
          /\ call.log[j].arg = <<call.draft, call.review>>
    /\ call.pc = "returned" =>
          /\ at("stage3") # {}
          /\ \A i \in DOMAIN call.log : call.log[i].ok \in {"ok", "failed"}
          /\ call.log[Len(call.log)].ok = "ok"
          /\ call.result = final_of(call.draft, call.review)
          /\ call.result \notin {call.draft, call.review}
    /\ call.pc = "raised" =>
          /\ call.log[Len(call.log)].ok = "failed"
          /\ call.result = <<>>

C12_Witness ==
    /\ call.fn = "summarize_with_audio"
    /\ call.pc = "raised"
    /\ call.log[Len(call.log)].call = "stage3"
    /\ call.draft # <<>>
    /\ call.review # <<>>

\* C18: for audio of at most the size threshold, stage 1 first makes the
\* multimodal draft call; only when that failed it requests speech-to-text;
\* only when speech-to-text failed it requests the low-temperature
\* multimodal transcription; the transcript of whichever transcription
\* succeeded is summarised by one chat call.  Stage 1 raises only when the
\* primary call failed and either both transcriptions failed or the
\* summarising call failed.
C18_FallbackOrder ==
    call.fn = "summarize_with_audio" /\ call.size <= LARGE_AUDIO_BYTES /\ call.log # <<>> =>
    LET s1 == Stage1Log
    IN /\ s1[1].call = "primary"
       /\ \A i \in 2..Len(s1) :
             /\ s1[i].call \in {"whisper", "transcribe_chat", "summarise"}
             /\ s1[i].call = "whisper" => i = 2 /\ s1[1].ok = "failed"
             /\ s1[i].call = "transcribe_chat" =>
                   s1[i - 1].call = "whisper" /\ s1[i - 1].ok = "failed"
             /\ s1[i].call = "summarise" =>
                   /\ s1[i - 1].ok = "ok"
                   /\ \/ s1[i - 1].call = "whisper"
                         /\ s1[i].arg = whisper_text(s1[i - 1].arg)
                      \/ s1[i - 1].call = "transcribe_chat"
                         /\ s1[i].arg = chat_transcript(s1[i - 1].arg)
                   /\ i = Len(s1)
       /\ call.pc = "raised" /\ at("stage2") = {} =>
             /\ s1[1].ok = "failed"
             /\ \/ /\ Len(s1) = 3
                   /\ s1[2].call = "whisper" /\ s1[2].ok = "failed"
                   /\ s1[3].call = "transcribe_chat" /\ s1[3].ok = "failed"
                \/ s1[Len(s1)].call = "summarise" /\ s1[Len(s1)].ok = "failed"

C18_Witness ==
    /\ call.fn = "summarize_with_audio"
    /\ call.size = LARGE_AUDIO_BYTES
    /\ call.pc = "raised"
    /\ Len(call.log) = 4
    /\ call.log[3].call = "transcribe_chat"
    /\ call.log[3].ok = "ok"
    /\ call.log[4].call = "summarise"

\* a transcription of segment s succeeded
succeeded(s) ==
    \E i \in DOMAIN call.log :
       /\ call.log[i].call \in {"whisper", "transcribe_chat"}
       /\ call.log[i].arg = s
       /\ call.log[i].ok = "ok"

\* the transcript a succeeded transcription of segment s returned
transcript_of(s) ==
    IF \E i \in at("whisper") : call.log[i].arg = s /\ call.log[i].ok = "ok"
    THEN whisper_text(s) ELSE chat_transcript(s)

\* the segments a transcription was requested for
attempted == {call.log[i].arg : i \in at("whisper")}

\* the number of windows cut is ceil(D / 600)
WindowsCut ==
    LET n == Len(call.cuts)
    IN /\ n >= 1
       /\ before((n - 1) * SEGMENT_SECONDS, call.duration)
       /\ ~before(n * SEGMENT_SECONDS, call.duration)
       /\ \A i \in DOMAIN call.cuts : call.cuts[i] = (i - 1) * SEGMENT_SECONDS

\* the transcript that is summarised joins, in chronological order, the
\* transcripts of exactly the segments whose transcription succeeded; a
\* failed segment does not abort the job; a segment's file is removed right
\* after its transcription attempt, succeeded or failed
SegmentsTranscribed ==
    /\ \A j \in at("summarise") :
          LET good == SelectSeq(call.cuts, succeeded)
          IN /\ call.log[j].arg = join([i \in DOMAIN good |-> transcript_of(good[i])])
             /\ call.files = {}
    /\ \A i \in DOMAIN call.log :
          /\ call.log[i].call = "whisper" /\ call.log[i].ok = "ok" =>
                call.log[i + 1] = [call |-> "remove", arg |-> call.log[i].arg, ok |-> "ok"]
          /\ call.log[i].call = "whisper" /\ call.log[i].ok = "failed" =>
                call.log[i + 1].call = "transcribe_chat"
                /\ call.log[i + 1].arg = call.log[i].arg
          /\ call.log[i].call = "transcribe_chat" /\ call.log[i].ok # "pending" =>
                call.log[i + 1] = [call |-> "remove", arg |-> call.log[i].arg, ok |-> "ok"]
          /\ call.log[i].call = "remove" => call.log[i].arg \notin call.files
    /\ call.pc = "raised" =>
          call.log[Len(call.log)].call \in {"summarise", "stage2", "stage3"}

\* C19 as stated: in the large-audio path the number of segments a
\* transcription is attempted for is ceil(D / 600); the summarised transcript
\* joins in chronological order exactly the succeeded segments; a failed
\* segment is skipped without aborting; each segment file is removed right
\* after its attempt.
C19_SegmentsAttempted ==
    call.fn = "summarize_with_audio" /\ call.large /\ at("summarise") # {} =>
    /\ WindowsCut
    /\ Cardinality(attempted) = Len(call.cuts)
    /\ SegmentsTranscribed

\* C19 amended: in the large-audio path the number of windows cut is
\* ceil(D / 600) and a transcription is attempted for exactly the windows
\* whose segment file exists after the cut; the summarised transcript joins
\* in chronological order exactly the succeeded segments; a failed segment
\* is skipped without aborting; each segment file is removed right after its
\* attempt.
C19_ProducedSegmentsAttempted ==
    call.fn = "summarize_with_audio" /\ call.large /\ call.log # <<>> =>
    /\ WindowsCut
    /\ attempted \subseteq call.produced
    /\ at("summarise") # {} => attempted = call.produced
    /\ SegmentsTranscribed

C19_Witness ==
    /\ call.fn = "summarize_with_audio"
    /\ call.large
    /\ Len(call.cuts) = 2
    /\ call.produced = {0, SEGMENT_SECONDS}
    /\ call.pc = "summarise"
    /\ ~succeeded(0)
    /\ succeeded(SEGMENT_SECONDS)
    /\ call.duration.frac

(* ====================================================================== *)
(* The output extraction of stage3_enrich_and_finalize                    *)
(* ====================================================================== *)
\* the longest list of content blocks of the model
MaxBlocks == 3

\* d.get(key, default)
get(d, key, default) == IF key \in DOMAIN d THEN d[key] ELSE default

\* the content blocks a response may hold: text blocks, a text block
\* without text, a tool block that has a text of its own, and a block
\* without a type
Blocks ==
    { [type |-> "text", text |-> <<"a">>],
      [type |-> "text", text |-> <<"b", "\n", "c">>],
      [type |-> "text"],
      [type |-> "tool_use", text |-> <<"x">>],
      [name |-> "web_search", text |-> <<"y">>] }

\* a JSON string and a JSON list
Str(s) == [str |-> s]
List(blocks) == [list |-> blocks]

\* isinstance(content, list)
is_list(content) == "list" \in DOMAIN content

BlockLists == UNION {[1..n -> Blocks] : n \in 0..MaxBlocks}

\* data["choices"][0]["message"]
Messages ==
    {[role |-> "assistant"]} \cup
    {[role |-> "assistant", content |-> Str(s)] : s \in {<<>>, <<"a", "\n", "x">>}} \cup
    {[role |-> "assistant", content |-> List(bs)] : bs \in BlockLists}

\* an extraction that takes the text of every block
RECURSIVE block_texts_Unfiltered(_)
block_texts_Unfiltered(blocks) ==
    IF blocks = <<>> THEN <<>>
    ELSE <<get(Head(blocks), "text", <<>>)>> \o block_texts_Unfiltered(Tail(blocks))

\* b.get("text", "") for b in content if b.get("type") == "text"; the None
\* of a block without a type is written "None"
RECURSIVE block_texts(_)
block_texts(blocks) ==
    IF blocks = <<>> THEN <<>>
    ELSE IF get(Head(blocks), "type", "None") = "text"
    THEN <<get(Head(blocks), "text", <<>>)>> \o block_texts(Tail(blocks))
    ELSE block_texts(Tail(blocks))

\* the last four lines of stage3_enrich_and_finalize
extract_content(message) ==
    LET content == get(message, "content", Str(<<>>))
    IN IF is_list(content) THEN join(block_texts(content.list)) ELSE content.str

Stage3Response(message) ==
    [fn |-> "stage3_enrich_and_finalize", pc |-> "response", message |-> message,
     result |-> <<>>]

InitStage3 ==
    /\ now = 0
    /\ _processed_msgs = <<>>
    /\ _pending = [u \in Users |-> None]
    /\ tasks = <<>>
    /\ coroutines = <<>>
    /\ nrecv = 0
    /\ inbox = [u \in Users |-> 0]
    /\ last_link = [u \in Users |-> <<>>]
    /\ history = <<>>
    /\ \E message \in Messages : call = Stage3Response(message)

\* the response has arrived: the document is extracted and returned
Stage3Extracts ==
    /\ call.pc = "response"
    /\ call' = [call EXCEPT !.pc = "returned", !.result = extract_content(call.message)]
    /\ UNCHANGED <<_pending, tasks, lifecycle>>

NextStage3 == Stage3Extracts

SpecStage3 == InitStage3 /\ [][NextStage3]_vars

\* C20: when the stage-3 content is a list of typed blocks, the returned
\* document is made of the texts of exactly the blocks whose type is text, in
\* their original order, and holds nothing of a block of another type; when
\* the content is a plain string, that string is returned unchanged.
C20_OnlyTextBlocks ==
    call.fn = "stage3_enrich_and_finalize" /\ call.pc = "returned"
    /\ "content" \in DOMAIN call.message =>
    LET content == call.message.content
    IN IF "list" \in DOMAIN content
       THEN LET typed == SelectSeq(content.list,
                            LAMBDA b : "type" \in DOMAIN b /\ b.type = "text")
                texts == [i \in DOMAIN typed |->
                            IF "text" \in DOMAIN typed[i] THEN typed[i].text ELSE <<>>]
            IN /\ call.result = join(texts)
               /\ \A i \in DOMAIN call.result : call.result[i] \notin {"x", "y"}
       ELSE call.result = content.str

C20_Witness ==
    /\ call.fn = "stage3_enrich_and_finalize"
    /\ call.pc = "returned"
    /\ "content" \in DOMAIN call.message
    /\ "list" \in DOMAIN call.message.content
    /\ Len(call.message.content.list) = 3
    /\ call.message.content.list[1] = [type |-> "tool_use", text |-> <<"x">>]
    /\ call.message.content.list[2] = [type |-> "text", text |-> <<"b", "\n", "c">>]
    /\ call.message.content.list[3] = [type |-> "text", text |-> <<"a">>]
    /\ call.result = <<"b", "\n", "c", "\n", "a">>

(* ====================================================================== *)
(* One call of send_text_message (src/app/services/wechat_api.py)         *)
(* ====================================================================== *)
\* the longest text of the model, in full parts
MaxParts == 2

\* the byte limit of one text part
max_len == 2000

\* Characters: "a" and "\n" take one byte in UTF-8, "zh" stands for a
\* character of three bytes and "em" for one of four bytes.
Width(c) == IF c = "zh" THEN 3 ELSE IF c = "em" THEN 4 ELSE 1

\* len(s.encode('utf-8'))
Utf8Len(s) ==
    Len(s) + Cardinality({i \in DOMAIN s : Width(s[i]) >= 2})
           + Cardinality({i \in DOMAIN s : Width(s[i]) >= 3})
           + Cardinality({i \in DOMAIN s : Width(s[i]) >= 4})

\* s[:cut] and s[cut:] for cut >= 0
slice_to(s, cut) == SubSeq(s, 1, Min(cut, Len(s)))
slice_from_SkipsOne(s, cut) == SubSeq(s, Min(cut, Len(s)) + 2, Len(s))
slice_from(s, cut) == SubSeq(s, Min(cut, Len(s)) + 1, Len(s))

\* s.rfind('\n')
rfind_newline(s) ==
    LET at_newline == {i \in DOMAIN s : s[i] = "\n"}
    IN IF at_newline = {} THEN -1
       ELSE (CHOOSE i \in at_newline : \A j \in at_newline : j <= i) - 1

\* str(n) for n >= 0
RECURSIVE decimal(_)
decimal(n) ==
    LET digit == <<"0", "1", "2", "3", "4", "5", "6", "7", "8", "9">>[(n % 10) + 1]
    IN IF n < 10 THEN <<digit>> ELSE decimal(n \div 10) \o <<digit>>

\* f"[{i+1}/{len(parts)}]\n" for the part at list index i = k - 1
marker(k, total) == <<"[">> \o decimal(k) \o <<"/">> \o decimal(total) \o <<"]", "\n">>

\* the message body of the part at list index k - 1
text_body(parts, k) ==
    IF Len(parts) > 1 /\ k - 1 > 0 THEN marker(k, Len(parts)) \o parts[k] ELSE parts[k]

\* n times the character c
Rep(c, n) == [i \in 1..n |-> c]

\* the texts sent: empty, short, exactly the limit, one byte over it,
\* MaxParts full parts, a newline after and before the middle of the first
\* cut, and wide characters across the cut
Texts ==
    { <<>>,
      <<"a", "\n", "zh">>,
      Rep("a", max_len),
      Rep("a", max_len + 1),
      Rep("a", MaxParts * max_len),
      Rep("a", max_len - 500) \o <<"\n">> \o Rep("a", max_len \div 2),
      Rep("a", max_len \div 4) \o <<"\n">> \o Rep("a", max_len),
      Rep("a", max_len - 10) \o Rep("zh", 20),
      Rep("a", max_len - 100) \o Rep("em", 40) \o <<"\n">> \o Rep("zh", 10) }

\* The locals of a send_text_message(user_id, content) call: original is the
\* argument, content what is left of it to split, pc the position (an await,
\* or the head of one of the two loops), i the list index plus one of the
\* part being posted, sent the bodies handed to client.post.
SendText(content) ==
    [fn |-> "send_text_message", original |-> content, content |-> content,
     pc |-> "token", cut |-> 0, parts |-> <<>>, i |-> 0, sent |-> <<>>]

InitText ==
    /\ now = 0
    /\ _processed_msgs = <<>>
    /\ _pending = [u \in Users |-> None]
    /\ tasks = <<>>
    /\ coroutines = <<>>
    /\ nrecv = 0
    /\ inbox = [u \in Users |-> 0]
    /\ last_link = [u \in Users |-> <<>>]
    /\ history = <<>>
    /\ \E content \in Texts : call = SendText(content)

\* the sending loop reaches the part at list index k - 1: its body is
\* posted, or the loop is over and the function returns
post_text(c, k) ==
    IF k > Len(c.parts) THEN [c EXCEPT !.pc = "returned"]
    ELSE [c EXCEPT !.pc = "post", !.i = k, !.sent = Append(@, text_body(c.parts, k))]

\* get_access_token returns or raises
TextTokenReturns ==
    /\ call.pc = "token"
    /\ \E ok \in BOOLEAN :
          call' = [call EXCEPT !.pc = IF ok THEN "split" ELSE "raised"]
    /\ UNCHANGED <<_pending, tasks, lifecycle>>

\* the head of `while content`: the loop ends on empty content, the rest is
\* taken whole when it fits, else a cut is looked for
SplitStarts ==
    /\ call.pc = "split"
    /\ call' = IF call.content = <<>> THEN post_text(call, 1)
               ELSE IF Utf8Len(call.content) <= max_len
               THEN post_text([call EXCEPT !.parts = Append(@, call.content)], 1)
               ELSE [call EXCEPT !.pc = "shrink", !.cut = max_len]
    /\ UNCHANGED <<_pending, tasks, lifecycle>>

\* one turn of `while len(content[:cut].encode('utf-8')) > max_len: cut -= 1`
CutShrinks ==
    /\ call.pc = "shrink"
    /\ Utf8Len(slice_to(call.content, call.cut)) > max_len
    /\ call' = [call EXCEPT !.cut = @ - 1]
    /\ UNCHANGED <<_pending, tasks, lifecycle>>

\* the cut fits: it moves back to a newline in its second half, the part is
\* appended and cut off the content
PartCut ==
    /\ call.pc = "shrink"
    /\ ~(Utf8Len(slice_to(call.content, call.cut)) > max_len)
    /\ LET last_newline == rfind_newline(slice_to(call.content, call.cut))
           cut == IF last_newline > call.cut \div 2 THEN last_newline + 1 ELSE call.cut
       IN call' = [call EXCEPT !.pc = "split", !.cut = cut,
                               !.parts = Append(@, slice_to(call.content, cut)),
                               !.content = slice_from(call.content, cut)]
    /\ UNCHANGED <<_pending, tasks, lifecycle>>

\* client.post returns, and the loop goes on, or raises, and so does
\* send_text_message
TextPostReturns ==
    /\ call.pc = "post"
    /\ \E ok \in BOOLEAN :
          call' = IF ok THEN post_text(call, call.i + 1)
                  ELSE [call EXCEPT !.pc = "raised"]
    /\ UNCHANGED <<_pending, tasks, lifecycle>>

NextText ==
    \/ TextTokenReturns
    \/ SplitStarts
    \/ CutShrinks
    \/ PartCut
    \/ TextPostReturns

SpecText == InitText /\ [][NextText]_vars

\* the concatenation of a list of texts
RECURSIVE Concat(_)
Concat(parts) == IF parts = <<>> THEN <<>> ELSE Head(parts) \o Concat(Tail(parts))

\* C14: every message body send_text_message hands to the transport, with
\* its "[i/total]" marker if it has one, is at most 2000 bytes in UTF-8.
C14_BodyWithinLimit ==
    call.fn = "send_text_message" =>
       \A k \in DOMAIN call.sent : Utf8Len(call.sent[k]) <= max_len

\* C15: the splitting loop terminates (every turn of the inner loop lowers
\* a cut that stays positive, every turn of the outer loop shortens the
\* content), the parts concatenated in order are the original content, and
\* when there is more than one part every part but the first is sent with
\* the prefix "[i/total]".
C15_SplitRoundTrip ==
    [][ call.fn = "send_text_message" =>
        /\ call'.pc \in {"split", "shrink"} =>
              Concat(call'.parts) \o call'.content = call.original
        /\ call'.pc \in {"post", "returned"} => Concat(call'.parts) = call.original
        /\ call.pc = "shrink" =>
              /\ call.cut >= 1
              /\ call'.cut >= 1
              /\ call'.pc = "shrink" => call'.cut < call.cut
              /\ call'.pc = "split" => Len(call'.content) < Len(call.content)
        /\ \A k \in DOMAIN call'.sent :
              /\ k <= Len(call'.parts)
              /\ call'.sent[k] =
                    IF Len(call'.parts) > 1 /\ k > 1
                    THEN <<"[">> \o decimal(k) \o <<"/">> \o decimal(Len(call'.parts))
                            \o <<"]", "\n">> \o call'.parts[k]
                    ELSE call'.parts[k]
      ]_vars

C15_Witness ==
    /\ call.fn = "send_text_message"
    /\ call.pc = "returned"
    /\ Len(call.parts) = 2
    /\ Len(call.parts[1]) < max_len
    /\ call.parts[1][Len(call.parts[1])] = "\n"
    /\ Len(call.sent) = 2
    /\ SubSeq(call.sent[2], 1, 6) = <<"[", "2", "/", "2", "]", "\n">>

(* ====================================================================== *)
(* One call of send_markdown_message (src/app/services/wechat_api.py)     *)
(* ====================================================================== *)
\* the most lines of a markdown text of the model
MaxLines == 3

\* the byte limit of one markdown part
MAX_BYTES == 1800

\* the names bound in the module wechat_api: its imports, its globals and
\* its functions
wechat_api_globals ==
    {"time", "logging", "httpx", "CORP_ID", "CORP_SECRET", "AGENT_ID", "logger",
     "_access_token", "_token_expires_at", "get_access_token", "send_text_message",
     "send_markdown_message", "upload_temp_media"}

\* the lookup of a global name succeeds; otherwise it raises NameError
name_defined(name) == name \in wechat_api_globals

\* s.split('\n')
RECURSIVE split_lines(_)
split_lines(s) ==
    LET at_newline == {i \in DOMAIN s : s[i] = "\n"}
    IN IF at_newline = {} THEN <<s>>
       ELSE LET first == CHOOSE i \in at_newline : \A j \in at_newline : i <= j
            IN <<SubSeq(s, 1, first - 1)>> \o split_lines(SubSeq(s, first + 1, Len(s)))

\* the loop over the lines and the append after it: `parts` and
\* `current_part` are the locals of that name
RECURSIVE pack_lines(_, _, _)
pack_lines(lines, parts, current_part) ==
    LET flushed == IF current_part # <<>> THEN Append(parts, current_part) ELSE parts
    IN IF lines = <<>> THEN flushed
       ELSE LET line == Head(lines) \o <<"\n">>
            IN IF Utf8Len(current_part \o line) > MAX_BYTES
               THEN pack_lines(Tail(lines), flushed, line)
               ELSE pack_lines(Tail(lines), parts, current_part \o line)

\* the parts send_markdown_message makes of content
markdown_parts(content) == pack_lines(split_lines(content), <<>>, <<>>)

\* the lines the markdown texts are made of: empty, short with a wide
\* character, half the limit, one byte under the limit and the limit
MarkdownLines ==
    { <<>>,
      <<"zh", "a">>,
      Rep("a", MAX_BYTES \div 2),
      Rep("a", MAX_BYTES - 1),
      Rep("a", MAX_BYTES) }

MarkdownTexts == {join(lines) : lines \in UNION {[1..n -> MarkdownLines] : n \in 1..MaxLines}}

\* The locals of a send_markdown_message(user_id, content) call: pc is the
\* await it is suspended at, i the list index plus one of the part being
\* sent, sent the bodies handed to client.post, pauses the sleeps awaited,
\* error the exception that left the function.
SendMarkdown(content) ==
    [fn |-> "send_markdown_message", content |-> content, pc |-> "token",
     parts |-> <<>>, i |-> 0, sent |-> <<>>, pauses |-> 0, error |-> "none"]

InitMarkdown ==
    /\ now = 0
    /\ _processed_msgs = <<>>
    /\ _pending = [u \in Users |-> None]
    /\ tasks = <<>>
    /\ coroutines = <<>>
    /\ nrecv = 0
    /\ inbox = [u \in Users |-> 0]
    /\ last_link = [u \in Users |-> <<>>]
    /\ history = <<>>
    /\ \E content \in MarkdownTexts : call = SendMarkdown(content)

\* the sending loop reaches the part at list index k - 1: it is posted, or
\* the loop is over and the function returns
post_markdown(c, k) ==
    IF k > Len(c.parts) THEN [c EXCEPT !.pc = "returned"]
    ELSE [c EXCEPT !.pc = "post", !.i = k, !.sent = Append(@, c.parts[k])]

\* the statement after the try/except of the sending loop:
\* `if len(parts) > 1: await asyncio.sleep(0.2)`
pause(c) ==
    IF Len(c.parts) > 1
    THEN IF name_defined("asyncio")
         THEN [c EXCEPT !.pc = "sleep", !.pauses = @ + 1]
         ELSE [c EXCEPT !.pc = "raised", !.error = "NameError"]
    ELSE post_markdown(c, c.i + 1)

\* get_access_token returns, the content is split and the first part is
\* posted; or get_access_token raises
MarkdownTokenReturns ==
    /\ call.pc = "token"
    /\ \E ok \in BOOLEAN :
          call' = IF ok
                  THEN post_markdown([call EXCEPT !.parts = markdown_parts(call.content)], 1)
                  ELSE [call EXCEPT !.pc = "raised", !.error = "Exception"]
    /\ UNCHANGED <<_pending, tasks, lifecycle>>

\* the awaited client.post returns or raises, which is logged and dropped,
\* and the pause follows; or the awaited sleep returns and the loop goes on
MarkdownAwaitReturns ==
    /\ call.pc \in {"post", "sleep"}
    /\ \E ok \in BOOLEAN :
          call' = IF call.pc = "post" THEN pause(call)
                  ELSE post_markdown(call, call.i + 1)
    /\ UNCHANGED <<_pending, tasks, lifecycle>>

NextMarkdown ==
    \/ MarkdownTokenReturns
    \/ MarkdownAwaitReturns

SpecMarkdown == InitMarkdown /\ [][NextMarkdown]_vars

\* C16: every part send_markdown_message makes consists of whole lines of
\* the content, is sent without an added marker, and is at most 1800 bytes
\* in UTF-8.
C16_MarkdownPartsWithinLimit ==
    call.fn = "send_markdown_message" /\ call.pc # "token" /\ call.error # "Exception" =>
    /\ Concat(call.parts) = call.content \o <<"\n">>
    /\ \A k \in DOMAIN call.parts :
          /\ call.parts[k] # <<>>
          /\ call.parts[k][Len(call.parts[k])] = "\n"
          /\ Utf8Len(call.parts[k]) <= MAX_BYTES
    /\ \A k \in DOMAIN call.sent : call.sent[k] = call.parts[k]

\* C17: when the content splits into more than one part, all the parts are
\* sent, in order, with a pause between consecutive sends, and the function
\* returns normally.
C17_AllPartsSentWithPauses ==
    call.fn = "send_markdown_message" /\ Len(call.parts) > 1
    /\ call.pc \in {"returned", "raised"} =>
    /\ call.pc = "returned"
    /\ call.sent = call.parts
    /\ call.pauses >= Len(call.parts) - 1

(* ------------------- claims on the lifecycle, continued ---------------- *)
\* the handle_message call that created task t has not returned yet
CreatorRunning(t) ==
    \E c \in DOMAIN coroutines :
       /\ coroutines[c].kind = "handler"
       /\ coroutines[c].user_id = tasks[t].user_id
       /\ coroutines[c].seq = history[t].seq
       /\ ~done(c)

\* C21: once the handler that created it has finished, every task that is in
\* the registry and not processing has a debounce timer that is still going
\* to fire, also when sending the acknowledgment failed: no task stays
\* PENDING in the registry without a scheduled timer.
C21_PendingTaskHasTimer ==
    \A u \in Users :
       waiting(u) /\ ~CreatorRunning(_pending[u]) =>
          /\ tasks[_pending[u]].timer_task # None
          /\ coroutines[tasks[_pending[u]].timer_task].pc = "sleeping"

\* handler c starts in this step, with a message that holds no link
HandlesFollowup(c) ==
    /\ coroutines[c].kind = "handler"
    /\ coroutines[c].pc = "ready"
    /\ coroutines'[c].pc # "ready"
    /\ extract_url_from_text(coroutines[c].content) = <<>>

\* C22: at most one follow-up text is ever applied to a task.  A non-link
\* message is applied only to a registry entry that is not processing, and
\* the same step sets processing, which is never reset; a non-link message
\* handled while the user's registry entry is processing gets the "busy"
\* reply and changes no task; the extra_requirement of a task changes only
\* in the step that sets its processing flag; and a task that is in the
\* registry and not processing has an empty extra_requirement.
C22_OneFollowupPerTask ==
    [][ /\ \A t \in DOMAIN tasks :
              /\ tasks[t].processing => tasks'[t].processing
              /\ tasks'[t].extra_requirement # tasks[t].extra_requirement =>
                    /\ tasks[t].extra_requirement = <<>>
                    /\ ~tasks[t].processing
                    /\ tasks'[t].processing
              /\ Cardinality({i \in DOMAIN history'[t].runs :
                                 history'[t].runs[i] = "handler"}) <= 1
        /\ \A c \in DOMAIN coroutines :
              HandlesFollowup(c) =>
                 LET u == coroutines[c].user_id
                 IN /\ coroutines'[c].pc = "work" =>
                          /\ _pending[u] # None
                          /\ ~tasks[_pending[u]].processing
                          /\ coroutines'[c].task = _pending[u]
                          /\ tasks'[_pending[u]].processing
                          /\ tasks'[_pending[u]].extra_requirement = Strip(coroutines[c].content)
                    /\ busy(u) => coroutines'[c].pc = "busy" /\ tasks' = tasks
        /\ \A u \in Users :
              _pending'[u] # None /\ ~tasks'[_pending'[u]].processing =>
                 tasks'[_pending'[u]].extra_requirement = <<>>
      ]_vars

C22_Witness ==
    \E c \in DOMAIN coroutines :
       LET u == coroutines[c].user_id
       IN /\ coroutines[c].pc = "busy"
          /\ busy(u)
          /\ tasks[_pending[u]].extra_requirement # <<>>
          /\ history[_pending[u]].runs = <<"handler">>

====
